---- MODULE Spec2Model ----
(***************************************************************************)
(* Token resolution of the exec credential plugin                          *)
(* (pkg/token/execCredentialPlugin.go).                                    *)
(*                                                                         *)
(* The state is the plugin object built by New, the token cache file on    *)
(* disk, the wall clock, and, for each invocation of Do, its position in   *)
(* the function, its local variables and the collaborator calls it made.   *)
(* Two invocation slots exist so that consecutive invocations on the same  *)
(* cache file can be observed.                                             *)
(***************************************************************************)
EXTENDS Integers, Sequences, FiniteSets, TLC

\* ------------------------------------------------------------------ bounds

\* Number of Do invocations a behaviour may start.
MaxRuns == 2

\* Number of seconds the clock may advance during a behaviour.
MaxTicks == 1

\* The clock value (unix seconds) of the initial state.
Epoch == 1000

\* Lifetime, in seconds, of a token freshly issued by the identity provider.
TokenLifetime == 3600

\* --------------------------------------------------------------- constants

\* const expirationDelta time.Duration = 60 * time.Second
expirationDelta == 60

\* adal.Token.Expires uses -3600 when ExpiresOn does not parse as a number.
UnparsableExpiry == 0 - 3600

\* Login methods of Options.LoginMethod: the four New names, and the device
\* code login for the methods it does not name.
DeviceCodeLogin == "devicecode"
ServicePrincipalLogin == "spn"
MSILogin == "msi"
AzureCLILogin == "azurecli"
WorkloadIdentityLogin == "workloadidentity"

LoginMethods ==
  { DeviceCodeLogin, ServicePrincipalLogin, MSILogin, AzureCLILogin,
    WorkloadIdentityLogin }

\* The server id the plugin is configured with (Options.ServerID).
ServerIDs == { "srv" }

\* ------------------------------------------------------------------ tokens

\* The json.Number "" (the zero value of adal.Token.ExpiresOn) is encoded as
\* EmptyNumber; every other ExpiresOn is the number of unix seconds it holds.
EmptyNumber == 0 - 1

\* adal.Token, reduced to the fields Do and its callees look at.
Token(resource, accessToken, refreshToken, expiresOn) ==
  [ Resource |-> resource, AccessToken |-> accessToken,
    RefreshToken |-> refreshToken, ExpiresOn |-> expiresOn ]

\* var token adal.Token: the zero value.
ZeroToken == Token("", "", "", EmptyNumber)

\* IsZero taken for the absence of an access token or of an expiration.
IsZeroWithoutAccessOrExpiry(t) == t.AccessToken = "" \/ t.ExpiresOn = EmptyNumber

\* adal.Token.IsZero: t == Token{}.
IsZero(t) == t = ZeroToken

\* adal.Token.Expires: the expiry as a time, -3600 if ExpiresOn is no number.
Expires(t) == IF t.ExpiresOn = EmptyNumber THEN UnparsableExpiry ELSE t.ExpiresOn

\* WillExpireIn with the comparison made inclusive: a token with exactly d
\* seconds left counts as still valid.
WillExpireInExclusive(t, d, clock) == ~ (Expires(t) >= clock + d)

\* WillExpireIn with the buffer one second too long.
WillExpireInEarly(t, d, clock) == ~ (Expires(t) > clock + d + 1)

\* adal.Token.WillExpireIn(d): !t.Expires().After(time.Now().Add(d)).
WillExpireIn(t, d, clock) == ~ (Expires(t) > clock + d)

\* TargetAudience without the legacy prefix.
TargetAudienceNoPrefix(o) == o.ServerID

\* targetAudience of Do: ServerID, or "spn:" + ServerID in legacy mode.
TargetAudience(o) == IF o.IsLegacy THEN "spn:" \o o.ServerID ELSE o.ServerID

\* ------------------------------------------------------------ construction

Options ==
  [ LoginMethod : LoginMethods, ServerID : ServerIDs, IsLegacy : BOOLEAN ]

\* DisableTokenCache with the Azure CLI login left out of the condition.
DisableTokenCacheWithoutCLI(o) ==
  \/ o.LoginMethod = ServicePrincipalLogin
  \/ o.LoginMethod = MSILogin
  \/ o.LoginMethod = WorkloadIdentityLogin

\* New: caching is disabled for the login methods that never use the cache.
DisableTokenCache(o) ==
  \/ o.LoginMethod = ServicePrincipalLogin
  \/ o.LoginMethod = MSILogin
  \/ o.LoginMethod = WorkloadIdentityLogin
  \/ o.LoginMethod = AzureCLILogin

New(o) == [ o |-> o, disableTokenCache |-> DisableTokenCache(o) ]

\* ------------------------------------------------------------------- state

Slots == { "A", "B" }

VARIABLES
  p,            \* the execCredentialPlugin built by New
  cacheFile,    \* content of the file p.o.tokenCacheFile
  now,          \* time.Now(), unix seconds
  runs,         \* number of Do invocations started so far
  inv,          \* inv[s]: ordinal of the invocation in slot s, 0 if none
  pc,           \* pc[s]: position of the invocation in Do
  token,        \* token[s]: Do's variable token (line 76)
  refreshed,    \* refreshed[s]: the token declared at line 112
  ret,          \* ret[s]: what Do returned, "" while it runs
  calls,        \* calls[s]: the collaborator calls made, in order
  cached,       \* cached[s]: {} or {token returned by TokenCache.Read}
  renewed,      \* renewed[s]: {} or {[tok, err] returned by refresher.Token}
  provided,     \* provided[s]: {} or {[tok, err] returned by provider.Token}
  written,      \* written[s]: tokens passed to TokenCache.Write, in order
  saved,        \* saved[s]: whether each of these writes succeeded, in order
  emitted,      \* emitted[s]: tokens passed to execCredentialWriter.Write
  checkedAt,    \* checkedAt[s]: {} or {clock seen by WillExpireIn}
  fileAtStart   \* fileAtStart[s]: cacheFile when the invocation started

vars ==
  << p, cacheFile, now, runs, inv, pc, token, refreshed, ret, calls, cached,
     renewed, provided, written, saved, emitted, checkedAt, fileAtStart >>

hist == << cached, renewed, provided, written, saved, emitted, checkedAt >>

\* ------------------------------------------------------------ cache file

\* The file does not exist.
NoFile == [ kind |-> "missing" ]

\* The file exists and cannot be read or decoded.
Corrupt == [ kind |-> "corrupt" ]

\* The file holds the token t.
FileOf(t) == [ kind |-> "token", tok |-> t ]

\* Resources a token found in the cache may have been issued for.
CachedResources == ServerIDs \cup { "spn:" \o id : id \in ServerIDs }

\* Expirations a token found in the cache may carry: none, exactly the
\* buffer away from the initial clock, one second more, and far away.
CachedExpiries ==
  { EmptyNumber, Epoch + expirationDelta, Epoch + expirationDelta + 1,
    Epoch + TokenLifetime }

CachedTokens ==
  { Token(r, a, rt, e) :
      r \in CachedResources, a \in { "", "c0" }, rt \in { "", "rt0" },
      e \in CachedExpiries }

InitialFiles ==
  { NoFile, Corrupt, FileOf(ZeroToken) } \cup { FileOf(t) : t \in CachedTokens }

\* TokenCache.Read: the zero Token if no file exists, an error if the file
\* cannot be read or decoded, its token otherwise.
ReadResult(file) ==
  CASE file.kind = "missing" -> [ tok |-> ZeroToken, err |-> FALSE ]
    [] file.kind = "corrupt" -> [ tok |-> ZeroToken, err |-> TRUE ]
    [] OTHER -> [ tok |-> file.tok, err |-> FALSE ]

\* -------------------------------------------------------- collaborators

\* What refresher.Token may return to invocation n at time clock: a fresh
\* token for the configured audience, no token and no error, or an error
\* (with no token, or with a token the caller must not use).
RefresherResults(o, n, clock) ==
  { [ tok |-> Token(TargetAudience(o), "r" \o ToString(n), "rrt" \o ToString(n),
                    clock + TokenLifetime),
      err |-> FALSE ],
    [ tok |-> ZeroToken, err |-> FALSE ],
    [ tok |-> ZeroToken, err |-> TRUE ],
    [ tok |-> Token("junk", "x" \o ToString(n), "", EmptyNumber), err |-> TRUE ] }

\* What provider.Token may return to invocation n at time clock: a fresh
\* token for the configured audience or for another one, or an error.
ProviderResults(o, n, clock) ==
  { [ tok |-> Token(TargetAudience(o), "p" \o ToString(n), "prt" \o ToString(n),
                    clock + TokenLifetime),
      err |-> FALSE ],
    [ tok |-> Token("other", "p" \o ToString(n), "prt" \o ToString(n),
                    clock + TokenLifetime),
      err |-> FALSE ],
    [ tok |-> ZeroToken, err |-> TRUE ] }

\* --------------------------------------------------------- Do, step by step

\* Do returns v: the invocation in slot s ends.
Return(s, v) ==
  /\ pc' = [pc EXCEPT ![s] = "done"]
  /\ ret' = [ret EXCEPT ![s] = v]

\* The invocation in slot s moves on to position l.
Goto(s, l) ==
  /\ pc' = [pc EXCEPT ![s] = l]
  /\ UNCHANGED ret

\* The slot the next invocation runs in: the one used least recently.
NextSlot == IF inv["A"] <= inv["B"] THEN "A" ELSE "B"

\* The calling tool launches the helper: Do is entered with its variables
\* zero-initialised (lines 74-78).
Enter(s) ==
  /\ runs < MaxRuns
  /\ runs' = runs + 1
  /\ inv' = [inv EXCEPT ![s] = runs + 1]
  /\ pc' = [pc EXCEPT ![s] = "read"]
  /\ token' = [token EXCEPT ![s] = ZeroToken]
  /\ refreshed' = [refreshed EXCEPT ![s] = ZeroToken]
  /\ ret' = [ret EXCEPT ![s] = ""]
  /\ calls' = [calls EXCEPT ![s] = << >>]
  /\ cached' = [cached EXCEPT ![s] = {}]
  /\ renewed' = [renewed EXCEPT ![s] = {}]
  /\ provided' = [provided EXCEPT ![s] = {}]
  /\ written' = [written EXCEPT ![s] = << >>]
  /\ saved' = [saved EXCEPT ![s] = << >>]
  /\ emitted' = [emitted EXCEPT ![s] = << >>]
  /\ checkedAt' = [checkedAt EXCEPT ![s] = {}]
  /\ fileAtStart' = [fileAtStart EXCEPT ![s] = cacheFile]
  /\ UNCHANGED << p, cacheFile, now >>

\* One invocation at a time: the next one starts when none is running.
Start(s) ==
  /\ \A t \in Slots : pc[t] \in { "idle", "done" }
  /\ s = NextSlot
  /\ Enter(s)

\* ReadCache with a read error taken for a cache miss.
ReadCacheErrorAsMiss(s) ==
  /\ pc[s] = "read"
  /\ IF p.disableTokenCache
       THEN /\ Goto(s, "verify")
            /\ UNCHANGED << token, calls, cached >>
       ELSE LET r == ReadResult(cacheFile) IN
            /\ calls' = [calls EXCEPT ![s] = Append(@, "Read")]
            /\ cached' = [cached EXCEPT ![s] = { r }]
            /\ token' = [token EXCEPT ![s] = r.tok]
            /\ Goto(s, "verify")
  /\ UNCHANGED << p, cacheFile, now, runs, inv, refreshed, renewed, provided,
                  written, saved, emitted, checkedAt, fileAtStart >>

\* Lines 79-85: read the cache unless caching is disabled; a read error is
\* returned at once.
ReadCache(s) ==
  /\ pc[s] = "read"
  /\ IF p.disableTokenCache
       THEN /\ Goto(s, "verify")
            /\ UNCHANGED << token, calls, cached >>
       ELSE LET r == ReadResult(cacheFile) IN
            /\ calls' = [calls EXCEPT ![s] = Append(@, "Read")]
            /\ cached' = [cached EXCEPT ![s] = { r }]
            /\ token' = [token EXCEPT ![s] = r.tok]
            /\ IF r.err
                 THEN Return(s, "unable to read from token cache")
                 ELSE Goto(s, "verify")
  /\ UNCHANGED << p, cacheFile, now, runs, inv, refreshed, renewed, provided,
                  written, saved, emitted, checkedAt, fileAtStart >>

\* Usable without the comparison of the resource.
UsableAnyResource(t, o) == ~ IsZero(t)

\* Line 92: the cached token is usable if it was issued for the target
\* audience and is not the zero Token.
Usable(t, o) == t.Resource = TargetAudience(o) /\ ~ IsZero(t)

\* Decide without the test of the refresh token: every expiring token is
\* refreshed.
DecideRefreshWithoutToken(t, o, clock) ==
  IF Usable(t, o)
    THEN IF ~ WillExpireIn(t, expirationDelta, clock)
           THEN "emitCached" ELSE "getOAuthConfig"
    ELSE "login"

\* Decide with the refresh token looked at before the expiry.
DecideRefreshFirst(t, o, clock) ==
  IF Usable(t, o)
    THEN IF t.RefreshToken # ""
           THEN "getOAuthConfig"
           ELSE IF ~ WillExpireIn(t, expirationDelta, clock)
                  THEN "emitCached" ELSE "login"
    ELSE "login"

\* Lines 92-100 and 130-133: where Do goes with the token t at time clock.
Decide(t, o, clock) ==
  IF Usable(t, o)
    THEN IF ~ WillExpireIn(t, expirationDelta, clock)
           THEN "emitCached"
           ELSE IF t.RefreshToken # "" THEN "getOAuthConfig" ELSE "login"
    ELSE "login"

\* Lines 87-100: verify the resource and the expiry of the token.
Verify(s) ==
  /\ pc[s] = "verify"
  /\ checkedAt' = [checkedAt EXCEPT ![s] = { now }]
  /\ Goto(s, Decide(token[s], p.o, now))
  /\ UNCHANGED << p, cacheFile, now, runs, inv, token, refreshed, calls,
                  cached, renewed, provided, written, saved, emitted, fileAtStart >>

\* Lines 96, 128, 149: return p.execCredentialWriter.Write(t, os.Stdout).
Emit(s, t) ==
  /\ calls' = [calls EXCEPT ![s] = Append(@, "Emit")]
  /\ emitted' = [emitted EXCEPT ![s] = Append(@, t)]
  /\ \E ok \in BOOLEAN :
       Return(s, IF ok THEN "nil" ELSE "exec credential write failed")

\* EmitCached without the return: Do goes on to the login.
EmitCachedNoReturn(s) ==
  /\ pc[s] = "emitCached"
  /\ calls' = [calls EXCEPT ![s] = Append(@, "Emit")]
  /\ emitted' = [emitted EXCEPT ![s] = Append(@, token[s])]
  /\ Goto(s, "login")
  /\ UNCHANGED << p, cacheFile, now, runs, inv, token, refreshed, cached,
                  renewed, provided, written, saved, checkedAt, fileAtStart >>

\* Line 96: the cached token is still valid and is written out.
EmitCached(s) ==
  /\ pc[s] = "emitCached"
  /\ Emit(s, token[s])
  /\ UNCHANGED << p, cacheFile, now, runs, inv, token, refreshed, cached,
                  renewed, provided, written, saved, checkedAt, fileAtStart >>

\* GetOAuthConfig with its error logged and the login tried instead.
GetOAuthConfigRecovering(s) ==
  /\ pc[s] = "getOAuthConfig"
  /\ calls' = [calls EXCEPT ![s] = Append(@, "getOAuthConfig")]
  /\ \E err \in BOOLEAN : Goto(s, IF err THEN "login" ELSE "newRefresher")
  /\ UNCHANGED << p, cacheFile, now, runs, inv, token, refreshed, hist,
                  fileAtStart >>

\* Lines 103-106: getOAuthConfig; its error is returned.
GetOAuthConfig(s) ==
  /\ pc[s] = "getOAuthConfig"
  /\ calls' = [calls EXCEPT ![s] = Append(@, "getOAuthConfig")]
  /\ \E err \in BOOLEAN :
       IF err THEN Return(s, "unable to get oAuthConfig")
              ELSE Goto(s, "newRefresher")
  /\ UNCHANGED << p, cacheFile, now, runs, inv, token, refreshed, hist,
                  fileAtStart >>

\* Lines 107-110: p.refresher builds the refresher; its error is returned.
NewRefresher(s) ==
  /\ pc[s] = "newRefresher"
  /\ calls' = [calls EXCEPT ![s] = Append(@, "refresher")]
  /\ \E err \in BOOLEAN :
       IF err THEN Return(s, "failed to get refresher")
              ELSE Goto(s, "refresh")
  /\ UNCHANGED << p, cacheFile, now, runs, inv, token, refreshed, hist,
                  fileAtStart >>

\* TokenRefreshed with a zero Token taken for a failed refresh.
TokenRefreshedNonZero(r) == ~ r.err /\ ~ IsZero(r.tok)

\* TokenRefreshed with the error of refresher.Token ignored.
TokenRefreshedAlways(r) == TRUE

\* Lines 114-120: tokenRefreshed is set when refresher.Token gave no error.
TokenRefreshed(r) == ~ r.err

\* Lines 112-120 and 130: refresher.Token; without an error the new token is
\* saved next, with an error Do continues to the login.
Refresh(s) ==
  /\ pc[s] = "refresh"
  /\ calls' = [calls EXCEPT ![s] = Append(@, "Refresh")]
  /\ \E r \in RefresherResults(p.o, inv[s], now) :
       /\ renewed' = [renewed EXCEPT ![s] = { r }]
       /\ refreshed' = [refreshed EXCEPT ![s] = r.tok]
       /\ Goto(s, IF TokenRefreshed(r) THEN "writeRefreshed" ELSE "login")
  /\ UNCHANGED << p, cacheFile, now, runs, inv, token, cached, provided,
                  written, saved, emitted, checkedAt, fileAtStart >>

\* p.tokenCache.Write(p.o.tokenCacheFile, t): the file is overwritten, or the
\* write fails and leaves it as it was.
WriteCache(s, t, ok) ==
  /\ calls' = [calls EXCEPT ![s] = Append(@, "Write")]
  /\ written' = [written EXCEPT ![s] = Append(@, t)]
  /\ saved' = [saved EXCEPT ![s] = Append(@, ok)]
  /\ cacheFile' = IF ok THEN FileOf(t) ELSE cacheFile

\* WriteRefreshed with a failed write logged and the login tried instead.
WriteRefreshedFallingBack(s) ==
  /\ pc[s] = "writeRefreshed"
  /\ \E ok \in BOOLEAN :
       /\ WriteCache(s, refreshed[s], ok)
       /\ Goto(s, IF ok THEN "emitRefreshed" ELSE "login")
  /\ UNCHANGED << p, now, runs, inv, token, refreshed, cached, renewed,
                  provided, emitted, checkedAt, fileAtStart >>

\* Lines 123-126: save the refreshed token; a write error is returned.
WriteRefreshed(s) ==
  /\ pc[s] = "writeRefreshed"
  /\ \E ok \in BOOLEAN :
       /\ WriteCache(s, refreshed[s], ok)
       /\ IF ok THEN Goto(s, "emitRefreshed")
                ELSE Return(s, "failed to write to store")
  /\ UNCHANGED << p, now, runs, inv, token, refreshed, cached, renewed,
                  provided, emitted, checkedAt, fileAtStart >>

\* EmitRefreshed with Do's outer variable token in place of the refreshed one.
EmitRefreshedOuter(s) ==
  /\ pc[s] = "emitRefreshed"
  /\ Emit(s, token[s])
  /\ UNCHANGED << p, cacheFile, now, runs, inv, token, refreshed, cached,
                  renewed, provided, written, saved, checkedAt, fileAtStart >>

\* Line 128: the refreshed token is written out.
EmitRefreshed(s) ==
  /\ pc[s] = "emitRefreshed"
  /\ Emit(s, refreshed[s])
  /\ UNCHANGED << p, cacheFile, now, runs, inv, token, refreshed, cached,
                  renewed, provided, written, saved, checkedAt, fileAtStart >>

\* Lines 135-140: run the underlying provider; its error is returned.
Login(s) ==
  /\ pc[s] = "login"
  /\ calls' = [calls EXCEPT ![s] = Append(@, "Login")]
  /\ \E r \in ProviderResults(p.o, inv[s], now) :
       /\ provided' = [provided EXCEPT ![s] = { r }]
       /\ token' = [token EXCEPT ![s] = r.tok]
       /\ IF r.err THEN Return(s, "failed to get token")
                   ELSE Goto(s, "writeLogin")
  /\ UNCHANGED << p, cacheFile, now, runs, inv, refreshed, cached, renewed,
                  written, saved, emitted, checkedAt, fileAtStart >>

\* WriteLogin without the write, as if caching were disabled.
WriteLoginSkipping(s) ==
  /\ pc[s] = "writeLogin"
  /\ Goto(s, "emitLogin")
  /\ UNCHANGED << calls, written, saved, cacheFile >>
  /\ UNCHANGED << p, now, runs, inv, token, refreshed, cached, renewed,
                  provided, emitted, checkedAt, fileAtStart >>

\* Lines 142-147: save the token unless caching is disabled; a write error
\* is returned.
WriteLogin(s) ==
  /\ pc[s] = "writeLogin"
  /\ IF p.disableTokenCache
       THEN /\ Goto(s, "emitLogin")
            /\ UNCHANGED << calls, written, saved, cacheFile >>
       ELSE \E ok \in BOOLEAN :
              /\ WriteCache(s, token[s], ok)
              /\ IF ok THEN Goto(s, "emitLogin")
                       ELSE Return(s, "unable to write to token cache")
  /\ UNCHANGED << p, now, runs, inv, token, refreshed, cached, renewed,
                  provided, emitted, checkedAt, fileAtStart >>

\* EmitLogin with the cache file put back as it was when the emitter fails.
EmitLoginRollingBack(s) ==
  /\ pc[s] = "emitLogin"
  /\ calls' = [calls EXCEPT ![s] = Append(@, "Emit")]
  /\ emitted' = [emitted EXCEPT ![s] = Append(@, token[s])]
  /\ \E ok \in BOOLEAN :
       /\ Return(s, IF ok THEN "nil" ELSE "exec credential write failed")
       /\ cacheFile' = IF ok THEN cacheFile ELSE fileAtStart[s]
  /\ UNCHANGED << p, now, runs, inv, token, refreshed, cached, renewed,
                  provided, written, saved, checkedAt, fileAtStart >>

\* EmitLogin with the token read back from the cache file, not Do's own.
EmitLoginFromFile(s) ==
  /\ pc[s] = "emitLogin"
  /\ Emit(s, IF p.disableTokenCache THEN token[s] ELSE ReadResult(cacheFile).tok)
  /\ UNCHANGED << p, cacheFile, now, runs, inv, token, refreshed, cached,
                  renewed, provided, written, saved, checkedAt, fileAtStart >>

\* Line 149: the token of the login is written out.
EmitLogin(s) ==
  /\ pc[s] = "emitLogin"
  /\ Emit(s, token[s])
  /\ UNCHANGED << p, cacheFile, now, runs, inv, token, refreshed, cached,
                  renewed, provided, written, saved, checkedAt, fileAtStart >>

\* One step of the invocation in slot s.
Do(s) ==
  \/ ReadCache(s)
  \/ Verify(s)
  \/ EmitCached(s)
  \/ GetOAuthConfig(s)
  \/ NewRefresher(s)
  \/ Refresh(s)
  \/ WriteRefreshed(s)
  \/ EmitRefreshed(s)
  \/ Login(s)
  \/ WriteLogin(s)
  \/ EmitLogin(s)

\* A second of wall-clock time passes.
Tick ==
  /\ now < Epoch + MaxTicks
  /\ now' = now + 1
  /\ UNCHANGED << p, cacheFile, runs, inv, pc, token, refreshed, ret, calls,
                  hist, fileAtStart >>

\* ----------------------------------------------------------- specification

Init ==
  /\ p \in { New(o) : o \in Options }
  /\ cacheFile \in InitialFiles
  /\ now = Epoch
  /\ runs = 0
  /\ inv = [s \in Slots |-> 0]
  /\ pc = [s \in Slots |-> "idle"]
  /\ token = [s \in Slots |-> ZeroToken]
  /\ refreshed = [s \in Slots |-> ZeroToken]
  /\ ret = [s \in Slots |-> ""]
  /\ calls = [s \in Slots |-> << >>]
  /\ cached = [s \in Slots |-> {}]
  /\ renewed = [s \in Slots |-> {}]
  /\ provided = [s \in Slots |-> {}]
  /\ written = [s \in Slots |-> << >>]
  /\ saved = [s \in Slots |-> << >>]
  /\ emitted = [s \in Slots |-> << >>]
  /\ checkedAt = [s \in Slots |-> {}]
  /\ fileAtStart = [s \in Slots |-> NoFile]

Next ==
  \/ \E s \in Slots : Start(s)
  \/ \E s \in Slots : Do(s)
  \/ Tick

Spec == Init /\ [][Next]_vars

\* One login method that caches and one that does not, legacy mode off.
InitFair ==
  /\ Init
  /\ p.o.LoginMethod \in { DeviceCodeLogin, ServicePrincipalLogin }
  /\ ~ p.o.IsLegacy

\* Every collaborator call returns, so an invocation that has started keeps
\* taking the steps of Do.
SpecFair ==
  InitFair /\ [][Next]_vars /\ \A s \in Slots : WF_vars(Do(s))

\* ------------------------------------------- two invocations on one file

\* The calling tool launches a helper while another may still be running:
\* Do is entered in a slot not used so far.
StartRace(s) ==
  /\ pc[s] = "idle"
  /\ Enter(s)

\* Cache files the two helpers may find: none, one holding the zero Token,
\* and one holding a token with an access token for the bare ServerID.
RaceFiles ==
  { NoFile, FileOf(ZeroToken) } \cup
  { FileOf(t) : t \in { c \in CachedTokens :
                          c.Resource \in ServerIDs /\ c.AccessToken # "" } }

\* Two helpers share the cache file only when the login method caches.
InitRace ==
  /\ Init
  /\ p.o.LoginMethod = DeviceCodeLogin
  /\ ~ p.o.IsLegacy
  /\ cacheFile \in RaceFiles

NextRace ==
  \/ \E s \in Slots : StartRace(s)
  \/ \E s \in Slots : Do(s)
  \/ Tick

\* Two invocations of Do whose steps interleave; TokenCache.Read and
\* TokenCache.Write are single steps, and nothing locks the file.
SpecRace == InitRace /\ [][NextRace]_vars

\* ------------------------------------------------------------------ claims

\* Number of calls of the collaborator operation c in the call sequence q.
Count(q, c) == Cardinality({ i \in DOMAIN q : q[i] = c })

\* The collaborator operation c was called by the invocation in slot s.
Called(s, c) == Count(calls[s], c) > 0

\* The call sequence q starts with the call sequence r.
StartsWith(q, r) == Len(r) <= Len(q) /\ SubSeq(q, 1, Len(r)) = r

\* Positions of Do inside the refresh branch (lines 100-129).
RefreshBranch ==
  { "getOAuthConfig", "newRefresher", "refresh", "writeRefreshed", "emitRefreshed" }

\* The login methods New disables caching for.
UncachedMethods ==
  { ServicePrincipalLogin, MSILogin, WorkloadIdentityLogin, AzureCLILogin }

\* Tokens read from the cache without an error by the invocation in slot s.
CachedBy(s) == { r.tok : r \in { x \in cached[s] : ~ x.err } }

\* Tokens returned without an error by refresher.Token in slot s.
RenewedBy(s) == { r.tok : r \in { x \in renewed[s] : ~ x.err } }

\* Tokens returned without an error by provider.Token in slot s.
ProvidedBy(s) == { r.tok : r \in { x \in provided[s] : ~ x.err } }

\* The elements of the sequence q.
Range(q) == { q[i] : i \in DOMAIN q }

\* C1: with a login method that disables caching (service principal, managed
\* identity, workload identity, Azure CLI) an invocation of Do never calls
\* TokenCache.Read or TokenCache.Write and leaves the cache file alone, it
\* never enters the refresh branch, and it calls TokenProvider.Token once:
\* at most once while it runs, exactly once when it has returned.
C1_CacheDisabledBypassesCache ==
  p.o.LoginMethod \in UncachedMethods =>
    \A s \in Slots :
      /\ ~ Called(s, "Read")
      /\ ~ Called(s, "Write")
      /\ cached[s] = {} /\ written[s] = << >>
      /\ cacheFile = fileAtStart[s] \/ inv[s] = 0
      /\ pc[s] \notin RefreshBranch \cup { "emitCached" }
      /\ ~ Called(s, "getOAuthConfig") /\ ~ Called(s, "refresher")
      /\ ~ Called(s, "Refresh")
      /\ Count(calls[s], "Login") <= 1
      /\ pc[s] = "done" => Count(calls[s], "Login") = 1

\* C1 witness: an Azure CLI invocation returned success while the cache file
\* held a token for the target audience that was far from expiring, with a
\* refresh token.
C1_Witness ==
  \E s \in Slots :
    /\ p.o.LoginMethod = AzureCLILogin
    /\ pc[s] = "done" /\ ret[s] = "nil"
    /\ cacheFile.kind = "token"
    /\ cacheFile.tok.Resource = TargetAudience(p.o)
    /\ cacheFile.tok.AccessToken # "" /\ cacheFile.tok.RefreshToken # ""
    /\ Expires(cacheFile.tok) > now + expirationDelta

\* C2: when the token read from the cache has a resource other than the
\* target audience, Do never emits it, even if it is unexpired: no OAuth
\* configuration is resolved, no refresher is built or called, the provider
\* is called, and only the provider's token is written to the cache and
\* emitted.
C2_AudienceMismatchIsCacheMiss ==
  \A s \in Slots : \A t \in CachedBy(s) :
    t.Resource # TargetAudience(p.o) =>
      /\ pc[s] \notin RefreshBranch \cup { "emitCached" }
      /\ ~ Called(s, "getOAuthConfig") /\ ~ Called(s, "refresher")
      /\ ~ Called(s, "Refresh")
      /\ pc[s] = "done" => Called(s, "Login")
      /\ Range(written[s]) \subseteq ProvidedBy(s)
      /\ Range(emitted[s]) \subseteq ProvidedBy(s)
      /\ t \notin Range(emitted[s])
      /\ ret[s] = "nil" => emitted[s] # << >>

\* C2 witness: a cached token for another audience, with more than the buffer
\* left when it was checked, and the invocation returned success.
C2_Witness ==
  \E s \in Slots : \E t \in CachedBy(s) : \E c \in checkedAt[s] :
    /\ t.Resource # TargetAudience(p.o)
    /\ t.AccessToken # ""
    /\ Expires(t) - c > expirationDelta
    /\ pc[s] = "done" /\ ret[s] = "nil"

\* C3: when the token read from the cache has 60 seconds or less left at the
\* time of the check (exactly 60 included), Do never emits it: any token
\* handed to the emitter was returned without error by Refresher.Token or by
\* TokenProvider.Token in this invocation, also after a failed refresh.
C3_ExpiringTokenNeverEmitted ==
  \A s \in Slots : \A t \in CachedBy(s) : \A c \in checkedAt[s] :
    Expires(t) - c <= expirationDelta =>
      /\ pc[s] # "emitCached"
      /\ Range(emitted[s]) \subseteq RenewedBy(s) \cup ProvidedBy(s)
      /\ t \notin Range(emitted[s])

\* C3 witness: a usable cached token with exactly 60 seconds left, a refresh
\* that failed, and a token emitted nevertheless.
C3_Witness ==
  \E s \in Slots : \E t \in CachedBy(s) : \E c \in checkedAt[s] :
    /\ Usable(t, p.o)
    /\ Expires(t) - c = expirationDelta
    /\ \E r \in renewed[s] : r.err
    /\ emitted[s] # << >>
    /\ ret[s] = "nil"

\* C4: with caching enabled, when the token read from the cache is for the
\* target audience and has more than 60 seconds left at the time of the
\* check, Do emits exactly that token and calls nothing else: its calls are
\* TokenCache.Read and then the emitter, with no OAuth configuration, no
\* refresher, no provider and no cache write.
C4_ValidTokenServedFromCache ==
  \A s \in Slots : \A t \in CachedBy(s) : \A c \in checkedAt[s] :
    (t.Resource = TargetAudience(p.o) /\ Expires(t) - c > expirationDelta) =>
      /\ pc[s] \in { "emitCached", "done" }
      /\ pc[s] = "emitCached" => calls[s] = << "Read" >>
      /\ pc[s] = "done" =>
           /\ calls[s] = << "Read", "Emit" >>
           /\ emitted[s] = << t >>
      /\ written[s] = << >> /\ renewed[s] = {} /\ provided[s] = {}

\* C4 witness: a cached token with 61 seconds left was checked and emitted.
C4_Witness ==
  \E s \in Slots : \E t \in CachedBy(s) : \E c \in checkedAt[s] :
    /\ t.Resource = TargetAudience(p.o)
    /\ Expires(t) - c = expirationDelta + 1
    /\ pc[s] = "done" /\ ret[s] = "nil"
    /\ emitted[s] = << t >>

\* Positions of Do from the login on (lines 135-149).
LoginPath == { "login", "writeLogin", "emitLogin", "done" }

\* C5: when Refresher.Token returns an error, Do does not return it: it goes
\* on to TokenProvider.Token, and when the provider succeeds Do passes the
\* provider's token to TokenCache.Write and, that write succeeding, to the
\* emitter; neither the cached token nor the value the failed refresh
\* returned is written or emitted.
C5_RefreshErrorFallsBackToLogin ==
  \A s \in Slots : \A r \in renewed[s] :
    r.err =>
      /\ pc[s] \in LoginPath
      /\ pc[s] = "done" =>
           /\ Called(s, "Login")
           /\ ret[s] \in { "nil", "failed to get token",
                           "unable to write to token cache",
                           "exec credential write failed" }
      /\ \A q \in ProvidedBy(s) :
           /\ pc[s] \in { "emitLogin", "done" } => written[s] = << q >>
           /\ pc[s] = "emitLogin" => cacheFile = FileOf(q)
           /\ (pc[s] = "done" /\ ret[s] # "unable to write to token cache")
                => emitted[s] = << q >>
      /\ Range(written[s]) \cup Range(emitted[s]) \subseteq ProvidedBy(s)
      /\ \A t \in CachedBy(s) \cup { r.tok } :
           t \notin Range(written[s]) \cup Range(emitted[s])

\* C5 witness: the refresh failed returning a token, the provider succeeded,
\* and Do returned success.
C5_Witness ==
  \E s \in Slots : \E r \in renewed[s] :
    /\ r.err /\ ~ IsZero(r.tok)
    /\ ProvidedBy(s) # {}
    /\ ret[s] = "nil"

\* C6 as stated: no error of the refresh step is returned by Do, so every
\* error Do returns is a cache read failure, a full-login failure, a cache
\* write failure or an emission failure.
C6_EveryRefreshStepFailureRecoverable ==
  \A s \in Slots :
    ret[s] \in { "", "nil", "unable to read from token cache",
                 "failed to get token", "failed to write to store",
                 "unable to write to token cache",
                 "exec credential write failed" }

\* C6, amended: a failure of Refresher.Token is recoverable, Do never returns
\* it and goes on to the full login; a failure to resolve the OAuth
\* configuration or to construct the Refresher is returned by Do at once,
\* with no full login. Every error Do returns is a cache read failure, an
\* OAuth configuration failure, a Refresher construction failure, a
\* full-login failure, a cache write failure or an emission failure, and the
\* full login follows a started refresh step only after Refresher.Token
\* returned an error.
C6_OnlyRefresherTokenFailureRecoverable ==
  \A s \in Slots :
    /\ ret[s] \in { "", "nil", "unable to read from token cache",
                    "unable to get oAuthConfig", "failed to get refresher",
                    "failed to get token", "failed to write to store",
                    "unable to write to token cache",
                    "exec credential write failed" }
    /\ ret[s] = "unable to get oAuthConfig"
         => calls[s] = << "Read", "getOAuthConfig" >>
    /\ ret[s] = "failed to get refresher"
         => calls[s] = << "Read", "getOAuthConfig", "refresher" >>
    /\ (\E r \in renewed[s] : r.err) =>
         /\ pc[s] \in LoginPath
         /\ ret[s] \notin { "unable to get oAuthConfig", "failed to get refresher",
                            "failed to write to store" }
    /\ (Called(s, "Login") /\ Called(s, "getOAuthConfig"))
         => \E r \in renewed[s] : r.err

\* C6 witness: Do returned the error of getOAuthConfig in one invocation and
\* the error of the Refresher construction in another.
C6_Witness ==
  \E s, t \in Slots :
    /\ ret[s] = "unable to get oAuthConfig"
    /\ ret[t] = "failed to get refresher"

\* C7: when the cached token is for the target audience, is about to expire
\* and has a refresh token, and Refresher.Token succeeds, Do writes the
\* refreshed token to the cache file, then emits that same token, and never
\* calls TokenProvider.Token.
C7_RefreshedTokenSavedThenEmitted ==
  \A s \in Slots : \A r \in renewed[s] :
    ~ r.err =>
      /\ \A t \in CachedBy(s) : \A c \in checkedAt[s] :
           /\ Usable(t, p.o) /\ t.RefreshToken # ""
           /\ WillExpireIn(t, expirationDelta, c)
      /\ pc[s] \in { "writeRefreshed", "emitRefreshed", "done" }
      /\ ~ Called(s, "Login") /\ provided[s] = {}
      /\ pc[s] = "emitRefreshed" =>
           /\ written[s] = << r.tok >>
           /\ cacheFile = FileOf(r.tok)
           /\ emitted[s] = << >>
      /\ emitted[s] # << >> =>
           /\ emitted[s] = << r.tok >>
           /\ written[s] = << r.tok >>
           /\ calls[s] = << "Read", "getOAuthConfig", "refresher", "Refresh",
                            "Write", "Emit" >>
      /\ ret[s] = "nil" => emitted[s] = << r.tok >>

\* C7 witness: a refreshed token, different from the cached one, was saved
\* and emitted and Do returned success.
C7_Witness ==
  \E s \in Slots : \E r \in renewed[s] :
    /\ ~ r.err /\ ~ IsZero(r.tok)
    /\ emitted[s] = << r.tok >>
    /\ cacheFile = FileOf(r.tok)
    /\ ret[s] = "nil"

\* C8: in every invocation the emitter is called at most once and its call is
\* the last collaborator call; Do returns success only after exactly one
\* emitter call, whose result it returns; and when Do fails with a cache read
\* failure, a full-login failure or a cache write failure, the emitter was
\* not called.
C8_OneEmissionLast ==
  \A s \in Slots :
    /\ Count(calls[s], "Emit") <= 1
    /\ Len(emitted[s]) = Count(calls[s], "Emit")
    /\ Called(s, "Emit") =>
         /\ calls[s][Len(calls[s])] = "Emit"
         /\ pc[s] = "done"
         /\ ret[s] \in { "nil", "exec credential write failed" }
    /\ ret[s] = "nil" => Count(calls[s], "Emit") = 1
    /\ ret[s] \in { "unable to read from token cache", "failed to get token",
                    "failed to write to store", "unable to write to token cache" }
         => ~ Called(s, "Emit") /\ emitted[s] = << >>

\* C8 witness: one invocation returned success after a login and another
\* failed on the cache write without an emission.
C8_Witness ==
  \E s, t \in Slots :
    /\ ret[s] = "nil" /\ Called(s, "Login")
    /\ ret[t] = "unable to write to token cache" /\ emitted[t] = << >>

\* The invocation in slot t is the one started right after the one in slot s.
Successive(s, t) == inv[s] > 0 /\ inv[t] = inv[s] + 1

\* C9: with caching enabled, two invocations in immediate succession against
\* a cache file holding a token for the target audience that has more than 60
\* seconds left at both checks emit that same token both times, call neither
\* the Refresher nor the TokenProvider, and leave the cache file unchanged.
C9_CacheHitIdempotent ==
  \A s, t \in Slots :
    ( /\ Successive(s, t)
      /\ ~ p.disableTokenCache
      /\ pc[s] = "done" /\ pc[t] = "done"
      /\ fileAtStart[s].kind = "token"
      /\ fileAtStart[s].tok.Resource = TargetAudience(p.o)
      /\ \A c \in checkedAt[s] \cup checkedAt[t] :
           Expires(fileAtStart[s].tok) - c > expirationDelta )
    => /\ emitted[s] = << fileAtStart[s].tok >>
       /\ emitted[t] = emitted[s]
       /\ calls[s] = << "Read", "Emit" >>
       /\ calls[t] = << "Read", "Emit" >>
       /\ fileAtStart[t] = fileAtStart[s]
       /\ cacheFile = fileAtStart[s]

\* C9 witness: two successive invocations, both successful, on a cached token
\* with a refresh token that had 61 seconds left at the second check.
C9_Witness ==
  \E s, t \in Slots : \E c \in checkedAt[t] :
    /\ Successive(s, t)
    /\ ret[s] = "nil" /\ ret[t] = "nil"
    /\ fileAtStart[s].kind = "token"
    /\ fileAtStart[s].tok.RefreshToken # ""
    /\ Expires(fileAtStart[s].tok) - c = expirationDelta + 1
    /\ emitted[t] = << fileAtStart[s].tok >>
    /\ emitted[s] = emitted[t]

\* C10: with caching enabled, when TokenCache.Read returns an error, Do
\* returns an error at once: the read is its only call, with no Refresher,
\* no TokenProvider, no cache write and no emission.
C10_ReadErrorIsFatal ==
  \A s \in Slots : \A r \in cached[s] :
    (~ p.disableTokenCache /\ r.err) =>
      /\ pc[s] = "done"
      /\ ret[s] = "unable to read from token cache"
      /\ calls[s] = << "Read" >>
      /\ checkedAt[s] = {} /\ renewed[s] = {} /\ provided[s] = {}
      /\ written[s] = << >> /\ emitted[s] = << >>
      /\ cacheFile = fileAtStart[s]

\* C10 witness: an invocation found the cache file unreadable and returned
\* the read error.
C10_Witness ==
  \E s \in Slots :
    /\ fileAtStart[s] = Corrupt
    /\ \E r \in cached[s] : r.err
    /\ ret[s] = "unable to read from token cache"

\* A call of TokenCache.Write by the invocation in slot s failed.
WriteFailed(s) == FALSE \in Range(saved[s])

\* C11: with caching enabled, when TokenCache.Write fails after a token was
\* acquired, by a refresh or by a full login, Do returns the write error and
\* the acquired token is never emitted; after a failed write of a refreshed
\* token the provider is not called.
C11_WriteFailureIsFatal ==
  \A s \in Slots :
    WriteFailed(s) =>
      /\ ~ p.disableTokenCache
      /\ pc[s] = "done"
      /\ Len(written[s]) = 1 /\ calls[s][Len(calls[s])] = "Write"
      /\ written[s][1] \in RenewedBy(s) \cup ProvidedBy(s)
      /\ emitted[s] = << >> /\ ~ Called(s, "Emit")
      /\ RenewedBy(s) # {} =>
           /\ ret[s] = "failed to write to store"
           /\ ~ Called(s, "Login") /\ provided[s] = {}
      /\ RenewedBy(s) = {} =>
           /\ ret[s] = "unable to write to token cache"
           /\ Called(s, "Login")

\* C11 witness: the write of a refreshed token failed in one invocation and
\* the write of the provider's token failed in another.
C11_Witness ==
  \E s, t \in Slots :
    /\ WriteFailed(s) /\ RenewedBy(s) # {} /\ ~ IsZero(written[s][1])
    /\ WriteFailed(t) /\ ProvidedBy(t) # {}
    /\ pc[s] = "done" /\ pc[t] = "done"

\* C12 as stated: when Refresher.Token returns no error and a zero Token, Do
\* takes the token for not refreshed: it neither writes nor emits the zero
\* Token and goes on to TokenProvider.Token.
C12_ZeroRefreshFallsBackToLogin ==
  \A s \in Slots : \A r \in renewed[s] :
    (~ r.err /\ IsZero(r.tok)) =>
      /\ pc[s] \in LoginPath
      /\ ZeroToken \notin Range(written[s]) \cup Range(emitted[s])
      /\ pc[s] = "done" => Called(s, "Login")

\* C12, amended: the fallback to the full login is triggered by the error of
\* Refresher.Token alone. When Refresher.Token returns no error and a zero
\* Token, Do takes the token for refreshed: it passes the zero Token to
\* TokenCache.Write and, that write succeeding, to the emitter, and it does
\* not call TokenProvider.Token.
C12_ZeroRefreshIsSavedAndEmitted ==
  \A s \in Slots : \A r \in renewed[s] :
    (~ r.err /\ IsZero(r.tok)) =>
      /\ pc[s] \in { "writeRefreshed", "emitRefreshed", "done" }
      /\ pc[s] # "writeRefreshed" => written[s] = << ZeroToken >>
      /\ (pc[s] = "done" /\ ret[s] # "failed to write to store")
           => emitted[s] = << ZeroToken >>
      /\ ~ Called(s, "Login")
      /\ ret[s] \in { "", "nil", "failed to write to store",
                      "exec credential write failed" }

\* C12 witness: Refresher.Token returned a zero Token without an error, and
\* Do wrote it to the cache file, emitted it and returned success.
C12_Witness ==
  \E s \in Slots : \E r \in renewed[s] :
    /\ ~ r.err /\ IsZero(r.tok)
    /\ inv[s] = runs
    /\ cacheFile = FileOf(ZeroToken)
    /\ emitted[s] = << ZeroToken >>
    /\ ret[s] = "nil"

\* C13 as stated: a cached token with an empty access token or a zero
\* expiration is never emitted and never used for a refresh, whatever its
\* other fields; Do proceeds to the full login as on a cache miss.
C13_PresentNeedsAccessTokenAndExpiry ==
  \A s \in Slots : \A t \in CachedBy(s) :
    (t.AccessToken = "" \/ t.ExpiresOn = EmptyNumber) =>
      /\ pc[s] \notin RefreshBranch \cup { "emitCached" }
      /\ ~ Called(s, "getOAuthConfig") /\ ~ Called(s, "Refresh")
      /\ t \notin Range(emitted[s])
      /\ pc[s] = "done" => Called(s, "Login")

\* C13, amended: a cached token is treated as absent only if it is the zero
\* Token, every field empty: then Do never emits it, never uses it for a
\* refresh and proceeds to the full login. A cached token for the target
\* audience with an empty access token is treated as present: with more than
\* 60 seconds left it is emitted from the cache. A cached token for the
\* target audience with a zero expiration is treated as present and about to
\* expire: it is never emitted, and with a refresh token it is used for a
\* refresh.
C13_PresentUnlessZeroToken ==
  \A s \in Slots : \A t \in CachedBy(s) : \A c \in checkedAt[s] :
    /\ IsZero(t) =>
         /\ pc[s] \in LoginPath
         /\ ~ Called(s, "getOAuthConfig") /\ ~ Called(s, "Refresh")
         /\ t \notin Range(emitted[s])
         /\ pc[s] = "done" => Called(s, "Login")
    /\ ( /\ t.AccessToken = ""
         /\ t.Resource = TargetAudience(p.o)
         /\ Expires(t) - c > expirationDelta ) =>
         /\ pc[s] \in { "emitCached", "done" }
         /\ pc[s] = "done" => emitted[s] = << t >> /\ ~ Called(s, "Login")
    /\ (t.ExpiresOn = EmptyNumber /\ t.Resource = TargetAudience(p.o)) =>
         /\ pc[s] # "emitCached"
         /\ t \notin Range(emitted[s])
         /\ t.RefreshToken # "" =>
              pc[s] = "getOAuthConfig" \/ Called(s, "getOAuthConfig")

\* C13 witness: a cached token with an empty access token was emitted from
\* the cache and Do returned success.
C13_Witness ==
  \E s \in Slots : \E t \in CachedBy(s) :
    /\ t.AccessToken = ""
    /\ emitted[s] = << t >>
    /\ calls[s] = << "Read", "Emit" >>
    /\ ret[s] = "nil"

\* The invocation in slot s resolved the OAuth configuration or built a
\* refresher, or is about to.
RefreshSetUp(s) ==
  \/ pc[s] \in RefreshBranch
  \/ Called(s, "getOAuthConfig")
  \/ Called(s, "refresher")

ServedFromCache(s, t) ==
  \/ pc[s] = "emitCached"
  \/ calls[s] = << "Read", "Emit" >> /\ emitted[s] = << t >>

\* C15: the audience a cached token must have to be used is ServerID when
\* legacy mode is off and "spn:" followed by ServerID when it is on. So in
\* legacy mode a cached token whose resource is the bare ServerID, and in
\* non-legacy mode one whose resource is "spn:" followed by ServerID, is
\* neither served from the cache nor refreshed, even if unexpired: Do calls
\* TokenProvider.Token.
C15_AudienceFollowsLegacyMode ==
  \A s \in Slots : \A t \in CachedBy(s) :
    /\ (ServedFromCache(s, t) \/ RefreshSetUp(s)) =>
         /\ p.o.IsLegacy => t.Resource = "spn:" \o p.o.ServerID
         /\ ~ p.o.IsLegacy => t.Resource = p.o.ServerID
    /\ ( \/ p.o.IsLegacy /\ t.Resource = p.o.ServerID
         \/ ~ p.o.IsLegacy /\ t.Resource = "spn:" \o p.o.ServerID ) =>
         /\ ~ ServedFromCache(s, t)
         /\ ~ RefreshSetUp(s)
         /\ t \notin Range(emitted[s])
         /\ pc[s] = "done" => Called(s, "Login")

\* C15 witness: in legacy mode a cached token for the bare ServerID with
\* more than 60 seconds left was passed over for the provider's token.
C15_Witness ==
  \E s \in Slots : \E t \in CachedBy(s) : \E c \in checkedAt[s] :
    /\ p.o.IsLegacy
    /\ t.Resource = p.o.ServerID /\ t.AccessToken # ""
    /\ Expires(t) - c > expirationDelta
    /\ Called(s, "Login")
    /\ ret[s] = "nil"

\* The invocation in slot s is the one started last.
Latest(s) == inv[s] > 0 /\ inv[s] = runs

\* A call of TokenCache.Write by the invocation in slot s succeeded.
WriteSucceeded(s) == TRUE \in Range(saved[s])

\* C16: during an invocation the cache file changes only by a successful
\* TokenCache.Write of a token that Refresher.Token or TokenProvider.Token
\* returned without error to that invocation. Without such a write, as on a
\* cache hit, on a refresh failure followed by a login failure and on an
\* error of the refresh set-up, the file is as it was when Do was entered.
C16_CacheFileChangesOnlyBySuccessfulWrite ==
  \A s \in Slots :
    Latest(s) =>
      /\ WriteSucceeded(s) =>
           /\ Len(written[s]) = 1 /\ saved[s] = << TRUE >>
           /\ written[s][1] \in RenewedBy(s) \cup ProvidedBy(s)
           /\ cacheFile = FileOf(written[s][1])
      /\ ~ WriteSucceeded(s) => cacheFile = fileAtStart[s]
      /\ calls[s] = << "Read", "Emit" >> => cacheFile = fileAtStart[s]
      /\ ((\E r \in renewed[s] : r.err) /\ ret[s] = "failed to get token")
           => cacheFile = fileAtStart[s]
      /\ ret[s] \in { "unable to get oAuthConfig", "failed to get refresher" }
           => cacheFile = fileAtStart[s]

\* C16 witness: a refresh failed, the login failed after it, and the cache
\* file still holds the token that was read.
C16_Witness ==
  \E s \in Slots : \E t \in CachedBy(s) :
    /\ Latest(s)
    /\ \E r \in renewed[s] : r.err /\ ~ IsZero(r.tok)
    /\ ret[s] = "failed to get token"
    /\ cacheFile = FileOf(t)

\* The content the cache file had before any invocation started.
InitialFile ==
  IF runs = 0 THEN cacheFile
  ELSE fileAtStart[CHOOSE s \in Slots : inv[s] = 1]

\* Tokens the invocation in slot s read from the cache and found valid: for
\* the target audience, not the zero Token, not about to expire.
ReadValidBy(s) ==
  { t \in CachedBy(s) :
      Usable(t, p.o) /\ \A c \in checkedAt[s] : ~ WillExpireIn(t, expirationDelta, c) }

\* Tokens the invocation in slot s acquired itself.
AcquiredBy(s) == RenewedBy(s) \cup ProvidedBy(s)

\* The cache file holds its initial content or a whole token that one of the
\* invocations acquired and wrote, and every invocation that returned
\* success emitted one token, which it read as valid or acquired itself.
FileWholeAndEmissionsOwn ==
  /\ \/ cacheFile = InitialFile
     \/ \E s \in Slots : \E i \in DOMAIN written[s] :
          /\ saved[s][i]
          /\ written[s][i] \in AcquiredBy(s)
          /\ cacheFile = FileOf(written[s][i])
  /\ \A s \in Slots :
       ret[s] = "nil" =>
         /\ Len(emitted[s]) = 1
         /\ emitted[s][1] \in ReadValidBy(s) \cup AcquiredBy(s)

\* A step that completes a successful write leaves the file holding the
\* token of that write, and no other step changes the file.
LastWriterWins ==
  /\ \A s \in Slots :
       (saved'[s] # saved[s] /\ saved'[s][Len(saved'[s])])
         => cacheFile' = FileOf(written'[s][Len(written'[s])])
  /\ cacheFile' # cacheFile =>
       \E s \in Slots : saved'[s] # saved[s] /\ saved'[s][Len(saved'[s])]

\* C17: with two invocations of Do interleaved on one cache file, reads and
\* writes atomic and no locking, the file is never corrupted: it always
\* holds its initial content or a whole token written by one invocation, the
\* last successful write deciding which, and each invocation that returns
\* success emitted a token it read as valid or acquired itself. Both
\* invocations can reach TokenProvider.Token (see the witness).
C17_RaceKeepsFileWhole ==
  [] FileWholeAndEmissionsOwn /\ [][LastWriterWins]_vars

\* C17 witness: both invocations read the missing cache file before either
\* wrote it, both called TokenProvider.Token, both wrote their token and
\* returned success, and the file holds one of the two tokens.
C17_Witness ==
  /\ InitialFile = NoFile
  /\ \A s \in Slots :
       /\ CachedBy(s) = { ZeroToken }
       /\ Called(s, "Login")
       /\ WriteSucceeded(s)
       /\ ret[s] = "nil"
  /\ \E s \in Slots : cacheFile = FileOf(written[s][1])
  /\ written["A"] # written["B"]

\* C18: with caching enabled, when an invocation has returned success (and
\* no later invocation has started) the cache file holds exactly the token
\* it emitted, whether that token came from the cache, from a refresh or from
\* the full login.
C18_CacheHoldsEmittedToken ==
  \A s \in Slots :
    (Latest(s) /\ ~ p.disableTokenCache /\ ret[s] = "nil") =>
      /\ Len(emitted[s]) = 1
      /\ cacheFile = FileOf(emitted[s][1])
      /\ \/ calls[s] = << "Read", "Emit" >>
         \/ emitted[s][1] \in RenewedBy(s) /\ ~ Called(s, "Login")
         \/ emitted[s][1] \in ProvidedBy(s)

\* C18 witness: an invocation served a token from the cache, and the next
\* one, a second later, refreshed it; both returned success and the file
\* holds the refreshed token that was emitted.
C18_Witness ==
  \E s, t \in Slots :
    /\ Successive(s, t) /\ Latest(t)
    /\ calls[s] = << "Read", "Emit" >> /\ ret[s] = "nil"
    /\ RenewedBy(t) # {} /\ ret[t] = "nil"
    /\ ~ IsZero(emitted[t][1])
    /\ cacheFile = FileOf(emitted[t][1])

\* The place of each collaborator call in the order Do makes them in.
CallRank(c) ==
  CASE c = "Read" -> 1
    [] c = "getOAuthConfig" -> 2
    [] c = "refresher" -> 3
    [] c = "Refresh" -> 4
    [] c = "Login" -> 5
    [] c = "Write" -> 6
    [] c = "Emit" -> 7

\* How far into Do each position is.
PcRank(l) ==
  CASE l = "idle" -> 0
    [] l = "read" -> 1
    [] l = "verify" -> 2
    [] l = "emitCached" -> 3
    [] l = "getOAuthConfig" -> 3
    [] l = "newRefresher" -> 4
    [] l = "refresh" -> 5
    [] l = "writeRefreshed" -> 6
    [] l = "emitRefreshed" -> 7
    [] l = "login" -> 6
    [] l = "writeLogin" -> 7
    [] l = "emitLogin" -> 8
    [] l = "done" -> 9

\* The invocation in slot s has started and has not returned.
Running(s) == pc[s] \notin { "idle", "done" }

\* The calls of an invocation are made in the order Read, Refresher.Token,
\* TokenProvider.Token, Write, emitter, each at most once; the provider is
\* not called after a refresh without error or a cache hit; and an
\* invocation that returned made one emitter call or returned an error
\* without one.
CallsOnceInOrder ==
  \A s \in Slots :
    /\ \A i, j \in DOMAIN calls[s] :
         i < j => CallRank(calls[s][i]) < CallRank(calls[s][j])
    /\ Called(s, "Login") => RenewedBy(s) = {} /\ ReadValidBy(s) = {}
    /\ pc[s] = "done" =>
         \/ /\ Count(calls[s], "Emit") = 1
            /\ ret[s] \in { "nil", "exec credential write failed" }
         \/ /\ Count(calls[s], "Emit") = 0
            /\ ret[s] \notin { "", "nil", "exec credential write failed" }
    /\ Running(s) => ret[s] = ""

\* Every step of a running invocation takes it further into Do: there is no
\* way back, so no retry.
NoWayBack ==
  \A s \in Slots :
    (Running(s) /\ pc'[s] # pc[s]) => PcRank(pc'[s]) > PcRank(pc[s])

\* C19: every invocation of Do terminates, with one emission attempt or one
\* error, after at most one TokenCache.Read, one Refresher.Token, one
\* TokenProvider.Token and one TokenCache.Write, in that order; no step is
\* retried, and TokenProvider.Token is never called after a refresh without
\* error or a cache hit.
C19_TerminatesWithoutRetry ==
  /\ [] CallsOnceInOrder
  /\ [][NoWayBack]_vars
  /\ \A s \in Slots : Running(s) ~> (pc[s] = "done")

\* C19 witness: an invocation made all of its calls, the failed refresh
\* before the login, and returned.
C19_Witness ==
  \E s \in Slots :
    /\ calls[s] = << "Read", "getOAuthConfig", "refresher", "Refresh", "Login",
                     "Write", "Emit" >>
    /\ pc[s] = "done"

\* C20: with caching enabled, when a token was acquired and written to the
\* cache and the emitter then fails, Do returns the emitter's error and the
\* cache keeps the new token: the next invocation starts on a file holding
\* it and, the token being for the target audience with more than 60
\* seconds left, serves it from the cache without a call of the Refresher
\* or of the TokenProvider.
C20_NoRollbackAfterEmitFailure ==
  \A s \in Slots :
    ( /\ ~ p.disableTokenCache
      /\ ret[s] = "exec credential write failed"
      /\ WriteSucceeded(s) ) =>
      /\ emitted[s] = written[s]
      /\ Latest(s) => cacheFile = FileOf(written[s][1])
      /\ \A t \in Slots :
           Successive(s, t) =>
             /\ fileAtStart[t] = FileOf(written[s][1])
             /\ \A c \in checkedAt[t] :
                  ( /\ written[s][1].Resource = TargetAudience(p.o)
                    /\ Expires(written[s][1]) - c > expirationDelta ) =>
                    /\ pc[t] \in { "emitCached", "done" }
                    /\ renewed[t] = {} /\ provided[t] = {}
                    /\ ~ RefreshSetUp(t)
                    /\ pc[t] = "done" =>
                         /\ calls[t] = << "Read", "Emit" >>
                         /\ emitted[t] = written[s]

\* C20 witness: the emitter failed after the provider's token was written,
\* and the next invocation emitted that token from the cache and returned
\* success.
C20_Witness ==
  \E s, t \in Slots :
    /\ Successive(s, t)
    /\ ret[s] = "exec credential write failed"
    /\ ProvidedBy(s) # {} /\ WriteSucceeded(s)
    /\ calls[t] = << "Read", "Emit" >>
    /\ emitted[t] = written[s]
    /\ ret[t] = "nil"

====
